---- MODULE Spec2Model ----
(***************************************************************************)
(* Model of remux_mkv.py: the filename standardizer, the output directory  *)
(* resolver, the ffmpeg argument builder and the control flow of main().   *)
(* Python str values are TLA+ strings; a character is a string of length 1. *)
(* The regular expressions are modelled by what re.search / re.match do on *)
(* the characters of the name.                                             *)
(***************************************************************************)
EXTENDS Integers, Sequences, FiniteSets, TLC

VARIABLES
    pc,             \* position of the run (or of the function call under test)
    input_file,     \* args.input_file / the filename argument
    keep_audio,     \* args.keep_audio
    specified_dir,  \* args.output_dir (None when -o is not given)
    env_dir,        \* os.environ.get('REMUX_OUTPUT_DIR') (None when unset)
    fs_dirs,        \* the paths that are existing directories
    locals,         \* the standardizer's local variables at its return
    new_filename,   \* main's new_filename / the standardizer's return value
    output_dir,     \* main's output_dir / the resolver's return value
    output_file,    \* main's output_file
    cmd,            \* the argument list handed to subprocess.run by run_ffmpeg
    exit_code,      \* the process exit status, NoExit while running
    check_result,   \* how the 'ffmpeg -version' subprocess of check_ffmpeg ended
    ffmpeg_result,  \* how the transcode subprocess of run_ffmpeg ended
    probe_result,   \* how the ffprobe subprocess of verify_audio_codec ended
    trace           \* history: the steps of main executed so far, in order

vars == <<pc, input_file, keep_audio, specified_dir, env_dir, fs_dirs,
          locals, new_filename,
          output_dir, output_file, cmd, exit_code, check_result,
          ffmpeg_result, probe_result, trace>>

-----------------------------------------------------------------------------
(* Python values *)

\* Python's None, as returned by get_standardized_movie_name and as the value
\* of an option or an environment variable that is not set.
None == "<None>"

\* exit_code while the process has not ended.
NoExit == 0 - 1

\* The result of a subprocess that has not been started.
NotRun == "not run"

\* A non-empty str is true, None and '' are false.
Truthy(v) == v # None /\ v # ""

-----------------------------------------------------------------------------
(* Characters and strings *)

At(s, i) == SubSeq(s, i, i)

UpperLetters == "ABCDEFGHIJKLMNOPQRSTUVWXYZ"

LowerLetters == "abcdefghijklmnopqrstuvwxyz"

Digits == {"0", "1", "2", "3", "4", "5", "6", "7", "8", "9"}

\* \s of the re module, restricted to ASCII.
WhiteSpace == {" ", "\t", "\n", "\r", "\f"}

\* re's \d on an ASCII character.
IsDigit(c) == c \in Digits

\* str.lower() on the ASCII capitals.
LowerTable ==
    [c \in {At(UpperLetters, i) : i \in 1..26} |->
        At(LowerLetters, CHOOSE i \in 1..26 : At(UpperLetters, i) = c)]

\* str.lower() on one character.
LowerChar(c) == IF c \in DOMAIN LowerTable THEN LowerTable[c] ELSE c

\* str.lower()
RECURSIVE Lower(_)
Lower(s) ==
    IF Len(s) = 0 THEN ""
    ELSE LowerChar(At(s, 1)) \o Lower(SubSeq(s, 2, Len(s)))

\* str.replace(c, '') for a single character c.
RECURSIVE Remove(_, _)
Remove(s, c) ==
    IF Len(s) = 0 THEN ""
    ELSE (IF At(s, 1) = c THEN "" ELSE At(s, 1)) \o Remove(SubSeq(s, 2, Len(s)), c)

\* str.rfind(c): the last index of character c in s, 0 when absent
\* (indices are 1-based here, so Python's -1 is 0).
RFind(s, c) ==
    LET hits == {i \in 1..Len(s) : At(s, i) = c}
    IN  IF hits = {} THEN 0 ELSE CHOOSE i \in hits : \A j \in hits : j <= i

\* The literal lit occurs in s at index i.
LitAt(s, i, lit) ==
    /\ i >= 1
    /\ i + Len(lit) - 1 <= Len(s)
    /\ SubSeq(s, i, i + Len(lit) - 1) = lit

Min(S) == CHOOSE x \in S : \A y \in S : x <= y

-----------------------------------------------------------------------------
(* os.path and pathlib *)

\* os.path.basename(p): what follows the last '/'.
basename(p) == SubSeq(p, RFind(p, "/") + 1, Len(p))

\* '/' * len(s) = s
AllSlashes(s) == \A i \in 1..Len(s) : At(s, i) = "/"

\* str.rstrip('/')
RECURSIVE RStripSlash(_)
RStripSlash(s) ==
    IF Len(s) > 0 /\ At(s, Len(s)) = "/"
    THEN RStripSlash(SubSeq(s, 1, Len(s) - 1))
    ELSE s

\* os.path.dirname(p): the head up to the last '/', its trailing slashes
\* stripped unless it consists of slashes only.
dirname(p) ==
    LET head == SubSeq(p, 1, RFind(p, "/"))
    IN  IF Len(head) > 0 /\ ~AllSlashes(head) THEN RStripSlash(head) ELSE head

\* The index of the '.' at which os.path.splitext splits p, 0 when it does
\* not split: the last dot, when it follows the last '/' and some character
\* between that '/' and the dot is not a dot (leading dots are no extension).
SplitIndex(p) ==
    LET sepIndex == RFind(p, "/")
        dotIndex == RFind(p, ".")
    IN  IF /\ dotIndex > sepIndex
           /\ \E k \in (sepIndex + 1)..(dotIndex - 1) : At(p, k) # "."
        THEN dotIndex
        ELSE 0

\* os.path.splitext(p) = (splitext_root(p), splitext_ext(p))
splitext_root(p) ==
    IF SplitIndex(p) = 0 THEN p ELSE SubSeq(p, 1, SplitIndex(p) - 1)

splitext_ext(p) ==
    IF SplitIndex(p) = 0 THEN "" ELSE SubSeq(p, SplitIndex(p), Len(p))

\* os.path.join(a, b)
join(a, b) ==
    IF Len(b) > 0 /\ At(b, 1) = "/" THEN b
    ELSE IF Len(a) = 0 \/ At(a, Len(a)) = "/" THEN a \o b
    ELSE a \o "/" \o b

\* Path(p).stem for a path without a trailing '/' and without '.' or '..'
\* as its last component: the last component up to its last dot, when that
\* dot is neither its first nor its last character.
stem(p) ==
    LET name == basename(p)
        i    == RFind(name, ".")
    IN  IF 1 < i /\ i < Len(name) THEN SubSeq(name, 1, i - 1) ELSE name

-----------------------------------------------------------------------------
(* get_standardized_movie_name *)

\* The extensions accepted at line 60.
ValidExtensions == {".mp4", ".mkv", ".avi", ".mov"}

\* year_regex matches at index i of name: four characters 19dd, 20dd or
\* 210d, no digit before them and no digit after them.
YearBodyAt(name, i) ==
    /\ i >= 1
    /\ i + 3 <= Len(name)
    /\ \/ /\ SubSeq(name, i, i + 1) \in {"19", "20"}
          /\ IsDigit(At(name, i + 2))
          /\ IsDigit(At(name, i + 3))
       \/ /\ SubSeq(name, i, i + 2) = "210"
          /\ IsDigit(At(name, i + 3))

\* year_regex without its lookahead (?!\d).
YearAtNoLookahead(name, i) ==
    /\ YearBodyAt(name, i)
    /\ (i = 1 \/ ~IsDigit(At(name, i - 1)))

YearAt(name, i) ==
    /\ YearBodyAt(name, i)
    /\ (i = 1 \/ ~IsDigit(At(name, i - 1)))
    /\ (i + 4 > Len(name) \/ ~IsDigit(At(name, i + 4)))

\* re.search(year_regex, name): the index of the leftmost match, 0 for None.
YearSearch(name) ==
    LET hits == {i \in 1..Len(name) : YearAt(name, i)}
    IN  IF hits = {} THEN 0 ELSE Min(hits)

\* The alternatives of resolution_regex, in the order they are written.
resolution_alts == <<"480p", "720p", "1080p", "2160p", "4K", "8K">>

\* The patterns of source_regexes, in list order. Each pattern is given by the
\* literals it matches: 'WEB[-\. ]?DL' matches WEB, an optional one of
\* '-', '.', ' ', then DL.
source_regexes ==
    << <<"BluRay">>,
       <<"WEB-DL", "WEB.DL", "WEB DL", "WEBDL">>,
       <<"WEB-Rip", "WEB.Rip", "WEB Rip", "WEBRip">>,
       <<"HDRip">>, <<"DVDRip">>, <<"HDCAM">>, <<"HDTS">>, <<"CAMRip">>,
       <<"SCREENER">>, <<"HMAX">>, <<"AMZN">>, <<"NF">>, <<"HULU">>,
       <<"BDRip">> >>

\* The literals of alts in lower case.
LowerAlts(alts) == [k \in 1..Len(alts) |-> Lower(alts[k])]

\* The alternatives lalts that match at index i of lname.
AltsAt(lname, i, lalts) == {k \in 1..Len(lalts) : LitAt(lname, i, lalts[k])}

\* re.search(<alts>, name, re.IGNORECASE).group(): the text matched at the
\* leftmost index where an alternative matches, by the first alternative
\* that matches there; None when there is no match. Ignoring case is
\* comparing the lower-case forms.
SearchGroup(name, alts) ==
    LET lname == Lower(name)
        lalts == LowerAlts(alts)
        hits  == {i \in 1..Len(name) : AltsAt(lname, i, lalts) # {}}
    IN  IF hits = {} THEN None
        ELSE LET i == Min(hits)
                 k == Min(AltsAt(lname, i, lalts))
             IN  SubSeq(name, i, i + Len(alts[k]) - 1)

\* Lines 78-79.
ExtractResolution(name) ==
    LET resolution_match == SearchGroup(name, resolution_alts)
    IN  IF resolution_match = None THEN "1080p" ELSE resolution_match

\* Lines 82-87: the loop over source_regexes from pattern k on.
RECURSIVE SourceFrom(_, _)
SourceFrom(name, k) ==
    IF k > Len(source_regexes) THEN "WEB"
    ELSE LET source_match == SearchGroup(name, source_regexes[k])
         IN  IF source_match # None
             THEN Remove(Remove(source_match, "-"), ".")
             ELSE SourceFrom(name, k + 1)

\* Source selection by position instead of list order: the pattern whose
\* match starts leftmost in the name wins.
ExtractSourceLeftmost(name) ==
    LET lname   == Lower(name)
        hitsOf(k) == {i \in 1..Len(name) :
                        AltsAt(lname, i, LowerAlts(source_regexes[k])) # {}}
        matching == {k \in 1..Len(source_regexes) : hitsOf(k) # {}}
    IN  IF matching = {} THEN "WEB"
        ELSE LET k == CHOOSE k \in matching :
                        \A j \in matching : Min(hitsOf(k)) <= Min(hitsOf(j))
             IN  Remove(Remove(SearchGroup(name, source_regexes[k]), "-"), ".")

ExtractSource(name) == SourceFrom(name, 1)

\* '\s*\(?{year}' matches name from index i on: some whitespace, an optional
\* '(', then the year's four characters.
RECURSIVE TitleTailAt(_, _, _)
TitleTailAt(name, i, year) ==
    \/ LitAt(name, i, year)
    \/ LitAt(name, i, "(" \o year)
    \/ /\ i <= Len(name)
       /\ At(name, i) \in WhiteSpace
       /\ TitleTailAt(name, i + 1, year)

\* re.match(rf'^(.+?)\s*\(?{year}', name): the length of group(1), 0 for no
\* match. group(1) is lazy: the shortest prefix of at least one character,
\* none of them a newline, after which the rest of the pattern matches.
TitleMatch(name, year) ==
    LET hits == {k \in 1..Len(name) :
                    /\ \A j \in 1..k : At(name, j) # "\n"
                    /\ TitleTailAt(name, k + 1, year)}
    IN  IF hits = {} THEN 0 ELSE Min(hits)

\* re.sub(r'[._]', ' ', title)
RECURSIVE SubDots(_)
SubDots(s) ==
    IF Len(s) = 0 THEN ""
    ELSE (IF At(s, 1) \in {".", "_"} THEN " " ELSE At(s, 1))
         \o SubDots(SubSeq(s, 2, Len(s)))

\* re.sub(r'\s+', ' ', title)
RECURSIVE SubSpaces(_)
SubSpaces(s) ==
    IF Len(s) = 0 THEN ""
    ELSE IF At(s, 1) \in WhiteSpace
         THEN IF Len(s) > 1 /\ At(s, 2) \in WhiteSpace
              THEN SubSpaces(SubSeq(s, 2, Len(s)))
              ELSE " " \o SubSpaces(SubSeq(s, 2, Len(s)))
         ELSE At(s, 1) \o SubSpaces(SubSeq(s, 2, Len(s)))

\* str.strip()
RECURSIVE Strip(_)
Strip(s) ==
    IF Len(s) > 0 /\ At(s, 1) \in WhiteSpace THEN Strip(SubSeq(s, 2, Len(s)))
    ELSE IF Len(s) > 0 /\ At(s, Len(s)) \in WhiteSpace
         THEN Strip(SubSeq(s, 1, Len(s) - 1))
         ELSE s

\* Lines 90-98.
ExtractTitle(name, year) ==
    LET k == TitleMatch(name, year)
    IN  IF k > 0 THEN Strip(SubSpaces(SubDots(SubSeq(name, 1, k))))
        ELSE "Unknown"

\* Line 100.
Compose(title, year, source, resolution) ==
    title \o " (" \o year \o ") " \o source \o " " \o resolution \o ".mp4"

\* The local variables of get_standardized_movie_name when it returns:
\* matched says whether it got past the two early returns (lines 61, 74);
\* the other fields are None when it did not.
StandardizeLocals(filename) ==
    LET name == splitext_root(basename(filename))
        ext  == splitext_ext(basename(filename))
        y    == YearSearch(name)
        year == SubSeq(name, y, y + 3)
    IN  IF Lower(ext) \notin ValidExtensions \/ y = 0
        THEN [matched |-> FALSE, year |-> None, resolution |-> None,
              source |-> None, title |-> None]
        ELSE [matched |-> TRUE, year |-> year,
              resolution |-> ExtractResolution(name),
              source |-> ExtractSource(name),
              title |-> ExtractTitle(name, year)]

\* The value get_standardized_movie_name returns with these locals.
StandardizeReturn(l) ==
    IF l.matched THEN Compose(l.title, l.year, l.source, l.resolution)
    ELSE None

get_standardized_movie_name(filename) ==
    StandardizeReturn(StandardizeLocals(filename))

-----------------------------------------------------------------------------
(* get_output_directory *)

\* str(Path(p)): '' is the current directory and trailing slashes are dropped.
PathStr(p) ==
    IF p = "" THEN "."
    ELSE IF AllSlashes(p) THEN "/"
    ELSE RStripSlash(p)

\* Path(p).is_dir() with the directories dirs; the current directory and the
\* root always exist.
is_dir(p, dirs) == PathStr(p) \in dirs \cup {".", "/"}

\* get_output_directory with the environment first and the command line
\* parameter second.
get_output_directory_env_first(input, specified, env, dirs) ==
    IF Truthy(env) /\ is_dir(env, dirs) THEN env
    ELSE IF Truthy(specified) /\ is_dir(specified, dirs) THEN specified
    ELSE dirname(input)

\* get_output_directory(input_file, specified_dir) when REMUX_OUTPUT_DIR is
\* env (None when unset) and dirs are the existing directories.
get_output_directory(input, specified, env, dirs) ==
    IF Truthy(specified) /\ is_dir(specified, dirs) THEN specified
    ELSE IF Truthy(env) /\ is_dir(env, dirs) THEN env
    ELSE dirname(input)

-----------------------------------------------------------------------------
(* run_ffmpeg *)

\* Both argument lists built with the mode inverted.
ffmpeg_cmd_inverted(input, output, keep) ==
    IF ~keep
    THEN <<"ffmpeg", "-i", input,
           "-map", "0", "-c", "copy",
           "-movflags", "+faststart",
           output>>
    ELSE <<"ffmpeg", "-i", input,
           "-map", "0:v", "-map", "0:a",
           "-c:v", "copy",
           "-c:a", "aac", "-b:a", "320k", "-ac", "2",
           "-movflags", "+faststart",
           output>>

\* The list cmd that run_ffmpeg(input_file, output_file, keep_audio) builds.
ffmpeg_cmd(input, output, keep) ==
    IF keep
    THEN <<"ffmpeg", "-i", input,
           "-map", "0", "-c", "copy",
           "-movflags", "+faststart",
           output>>
    ELSE <<"ffmpeg", "-i", input,
           "-map", "0:v", "-map", "0:a",
           "-c:v", "copy",
           "-c:a", "aac", "-b:a", "320k", "-ac", "2",
           "-movflags", "+faststart",
           output>>

-----------------------------------------------------------------------------
(* Bounded inputs *)

\* The largest number of pieces a generated name is made of.
MaxPieces == 3

\* All concatenations of at most n strings of the set pieces.
RECURSIVE Concats(_, _)
Concats(pieces, n) ==
    IF n = 0 THEN {""}
    ELSE LET shorter == Concats(pieces, n - 1)
         IN  shorter \cup {s \o p : s \in shorter, p \in pieces}

\* Pieces of the names the year and title extraction is checked on.
NamePieces == {"1999", "2105", "0", ".", "_", " ", "(", "A", "nf"}

NameExts == {".mkv", ".MP4", ".avi", ".mov", ".txt"}

NameInputs == {s \o e : s \in Concats(NamePieces, MaxPieces), e \in NameExts}

\* Pieces of the names the source extraction is checked on.
SourcePieces == {"1999", ".", "A", "nf", "WEB-DL", "web.dl", "Web Rip",
                 "BluRay", "hdts"}

SourceExts == {".mkv", ".AVI"}

SourceInputs ==
    {s \o e : s \in Concats(SourcePieces, MaxPieces), e \in SourceExts}

NoLocals ==
    [matched |-> FALSE, year |-> None, resolution |-> None, source |-> None,
     title |-> None]

-----------------------------------------------------------------------------
(* The standardizer applied to one filename *)

InitCall(inputs) ==
    /\ pc = "call"
    /\ input_file \in inputs
    /\ keep_audio = FALSE
    /\ specified_dir = None
    /\ env_dir = None
    /\ fs_dirs = {}
    /\ locals = NoLocals
    /\ new_filename = None
    /\ output_dir = None
    /\ output_file = None
    /\ cmd = <<>>
    /\ exit_code = NoExit
    /\ check_result = NotRun
    /\ ffmpeg_result = NotRun
    /\ probe_result = NotRun
    /\ trace = <<>>

InitName == InitCall(NameInputs)

InitSource == InitCall(SourceInputs)

\* new_filename = get_standardized_movie_name(input_file)
CallStandardize ==
    /\ pc = "call"
    /\ locals' = StandardizeLocals(input_file)
    /\ new_filename' = StandardizeReturn(locals')
    /\ pc' = "ret"
    /\ UNCHANGED <<input_file, keep_audio, specified_dir, env_dir, fs_dirs,
                   output_dir, output_file, cmd, exit_code, check_result,
          ffmpeg_result, probe_result, trace>>

NextName == CallStandardize

SpecName == InitName /\ [][NextName]_vars

SpecSource == InitSource /\ [][NextName]_vars

-----------------------------------------------------------------------------
(* The output directory resolver applied to one set of arguments *)

DirInputs == {"x.mkv", "in/x.mkv", "/x.mkv", "/in//x.mkv", "in/sub/x.mkv"}

\* Values of -o and of REMUX_OUTPUT_DIR: unset, empty, directories that may
\* exist (one written with a trailing slash) and the path of a file.
DirArgs == {None, "", "/out", "/env/", "in", "in/x.mkv"}

\* The directories that may exist besides the current directory and the root.
DirCandidates == {"/out", "/env", "in"}

InitDir ==
    /\ pc = "call"
    /\ input_file \in DirInputs
    /\ keep_audio = FALSE
    /\ specified_dir \in DirArgs
    /\ env_dir \in DirArgs
    /\ fs_dirs \in SUBSET DirCandidates
    /\ locals = NoLocals
    /\ new_filename = None
    /\ output_dir = None
    /\ output_file = None
    /\ cmd = <<>>
    /\ exit_code = NoExit
    /\ check_result = NotRun
    /\ ffmpeg_result = NotRun
    /\ probe_result = NotRun
    /\ trace = <<>>

\* output_dir = get_output_directory(input_file, specified_dir)
CallGetOutputDirectory ==
    /\ pc = "call"
    /\ output_dir' = get_output_directory(input_file, specified_dir, env_dir,
                                          fs_dirs)
    /\ pc' = "ret"
    /\ UNCHANGED <<input_file, keep_audio, specified_dir, env_dir, fs_dirs,
                   locals, new_filename, output_file, cmd, exit_code,
                   check_result, ffmpeg_result, probe_result, trace>>

NextDir == CallGetOutputDirectory

SpecDir == InitDir /\ [][NextDir]_vars

\* d is given and names an existing directory. The empty string is no
\* directory name.
ValidDirectory(d) == d # None /\ d # "" /\ is_dir(d, fs_dirs)

\* C4: the resolver returns the explicit directory whenever it is a valid
\* directory, else the environment's directory when that one is valid, else
\* the directory component of the input path, which is always a string
\* (possibly the empty one).
C4_OutputDirectoryPriority ==
    pc = "ret" =>
        /\ ValidDirectory(specified_dir) => output_dir = specified_dir
        /\ (~ValidDirectory(specified_dir) /\ ValidDirectory(env_dir))
              => output_dir = env_dir
        /\ (~ValidDirectory(specified_dir) /\ ~ValidDirectory(env_dir))
              => /\ output_dir # None
                 /\ output_dir = dirname(input_file)
        /\ output_dir = env_dir /\ env_dir # specified_dir /\ env_dir # dirname(input_file)
              => ~ValidDirectory(specified_dir) /\ ValidDirectory(env_dir)

\* C4 witness: the explicit directory and the environment's directory are
\* both valid and differ, and the explicit one was returned.
C4_Witness ==
    /\ pc = "ret"
    /\ ValidDirectory(specified_dir)
    /\ ValidDirectory(env_dir)
    /\ specified_dir # env_dir
    /\ dirname(input_file) \notin {specified_dir, env_dir}
    /\ output_dir = specified_dir

-----------------------------------------------------------------------------
(* main *)

\* Pieces of the input file names of a whole run.
MainPieces == {"A", "1999", "_"}

MainPrefixes == {"", "d/"}

MainExts == {".mkv", ".mp4"}

\* Paths of files with a non-empty stem, in the current directory or in d.
MainInputs ==
    {d \o s \o e : d \in MainPrefixes,
                   s \in Concats(MainPieces, MaxPieces) \ {""},
                   e \in MainExts}

\* Values of -o and of REMUX_OUTPUT_DIR in a whole run.
MainDirArgs == {None, "/out", "d", "/nodir"}

\* The directories that exist in a whole run.
MainDirs == {"/out", "d"}

\* How a subprocess.run(..., check=True) can end: the process exits zero, it
\* exits non-zero (CalledProcessError), or it cannot be started
\* (FileNotFoundError). verify_audio_codec also reads the codec from stdout.
CheckOutcomes == {"zero", "CalledProcessError", "FileNotFoundError"}

FfmpegOutcomes == {"zero", "CalledProcessError", "FileNotFoundError"}

ProbeOutcomes == {"aac", "other codec", "CalledProcessError", "FileNotFoundError"}

Init ==
    /\ pc = "check_ffmpeg"
    /\ input_file \in MainInputs
    /\ keep_audio \in BOOLEAN
    /\ specified_dir \in MainDirArgs
    /\ env_dir \in MainDirArgs
    /\ fs_dirs = MainDirs
    /\ locals = NoLocals
    /\ new_filename = None
    /\ output_dir = None
    /\ output_file = None
    /\ cmd = <<>>
    /\ exit_code = NoExit
    /\ check_result = NotRun
    /\ ffmpeg_result = NotRun
    /\ probe_result = NotRun
    /\ trace = <<>>

\* check_ffmpeg() returns True when the version query exits zero; both
\* exceptions are caught and make it return False.
check_ffmpeg(outcome) == outcome = "zero"

\* Lines 179-180 without the sys.exit(1).
PcAfterCheckNoExit(found) == "is_file"

\* Lines 179-180: where main goes with the value of check_ffmpeg().
PcAfterCheck(found) == IF found THEN "is_file" ELSE "exit"

\* Lines 178-180.
CheckFfmpeg ==
    /\ pc = "check_ffmpeg"
    /\ \E outcome \in CheckOutcomes :
          /\ check_result' = outcome
          /\ pc' = PcAfterCheck(check_ffmpeg(outcome))
    /\ exit_code' = IF pc' = "exit" THEN 1 ELSE NoExit
    /\ trace' = Append(trace, "check_ffmpeg")
    /\ UNCHANGED <<input_file, keep_audio, specified_dir, env_dir, fs_dirs,
                   locals, new_filename, output_dir, output_file, cmd,
                   ffmpeg_result, probe_result>>

\* Lines 183-185: Path(args.input_file).is_file()
CheckInputFile ==
    /\ pc = "is_file"
    /\ \E exists \in BOOLEAN :
          /\ pc' = IF exists THEN "standardize" ELSE "exit"
          /\ exit_code' = IF exists THEN NoExit ELSE 1
    /\ trace' = Append(trace, "is_file")
    /\ UNCHANGED <<input_file, keep_audio, specified_dir, env_dir, fs_dirs,
                   locals, new_filename, output_dir, output_file, cmd,
                   check_result, ffmpeg_result, probe_result>>

\* Lines 188-193: the standardized name, or the stem with '.mp4'.
Standardize ==
    /\ pc = "standardize"
    /\ locals' = StandardizeLocals(input_file)
    /\ new_filename' =
          IF StandardizeReturn(locals') # None
          THEN StandardizeReturn(locals')
          ELSE stem(input_file) \o ".mp4"
    /\ pc' = "output_directory"
    /\ trace' = Append(trace, "get_standardized_movie_name")
    /\ UNCHANGED <<input_file, keep_audio, specified_dir, env_dir, fs_dirs,
                   output_dir, output_file, cmd, exit_code, check_result,
                   ffmpeg_result, probe_result>>

\* Lines 196-197.
ResolveOutput ==
    /\ pc = "output_directory"
    /\ output_dir' = get_output_directory(input_file, specified_dir, env_dir,
                                          fs_dirs)
    /\ output_file' = join(output_dir', new_filename)
    /\ pc' = "run_ffmpeg"
    /\ trace' = Append(trace, "get_output_directory")
    /\ UNCHANGED <<input_file, keep_audio, specified_dir, env_dir, fs_dirs,
                   locals, new_filename, cmd, exit_code, check_result,
                   ffmpeg_result, probe_result>>

\* Lines 206-214 with the codec probe run whatever run_ffmpeg returned.
PcAfterFfmpegAlwaysVerify(outcome, keep) ==
    IF outcome = "FileNotFoundError" THEN "exit"
    ELSE IF ~keep THEN "verify"
    ELSE "exit"

\* Lines 125-130 and 206-214: where main goes when the transcode process
\* ended with outcome. run_ffmpeg returns True for a zero exit and False for
\* CalledProcessError; FileNotFoundError is not caught and ends the run.
PcAfterFfmpeg(outcome, keep) ==
    IF outcome = "zero" /\ ~keep THEN "verify" ELSE "exit"

\* The exit status when main ends after the transcode: 0 when it falls off
\* its end, 1 from sys.exit(1) and from an uncaught exception.
ExitAfterFfmpeg(outcome) == IF outcome = "zero" THEN 0 ELSE 1

\* Lines 206-214 and run_ffmpeg.
RunFfmpeg ==
    /\ pc = "run_ffmpeg"
    /\ cmd' = ffmpeg_cmd(input_file, output_file, keep_audio)
    /\ \E outcome \in FfmpegOutcomes :
          /\ ffmpeg_result' = outcome
          /\ pc' = PcAfterFfmpeg(outcome, keep_audio)
          /\ exit_code' = IF pc' = "exit" THEN ExitAfterFfmpeg(outcome)
                          ELSE NoExit
    /\ trace' = Append(trace, "ffmpeg")
    /\ UNCHANGED <<input_file, keep_audio, specified_dir, env_dir, fs_dirs,
                   locals, new_filename, output_dir, output_file,
                   check_result, probe_result>>

\* The exit status after verify_audio_codec: it catches CalledProcessError
\* only, so a probe that cannot be started raises FileNotFoundError out of
\* main and the interpreter exits with status 1.
ExitAfterProbe(outcome) == IF outcome = "FileNotFoundError" THEN 1 ELSE 0

\* Line 212 and verify_audio_codec.
VerifyAudioCodec ==
    /\ pc = "verify"
    /\ \E outcome \in ProbeOutcomes :
          /\ probe_result' = outcome
          /\ exit_code' = ExitAfterProbe(outcome)
    /\ pc' = "exit"
    /\ trace' = Append(trace, "ffprobe")
    /\ UNCHANGED <<input_file, keep_audio, specified_dir, env_dir, fs_dirs,
                   locals, new_filename, output_dir, output_file, cmd,
                   check_result, ffmpeg_result>>

Next ==
    \/ CheckFfmpeg
    \/ CheckInputFile
    \/ Standardize
    \/ ResolveOutput
    \/ RunFfmpeg
    \/ VerifyAudioCodec

Spec == Init /\ [][Next]_vars

-----------------------------------------------------------------------------
(* Properties of main *)

\* How often step occurs in trace.
Count(step) == Cardinality({i \in 1..Len(trace) : trace[i] = step})

\* x directly followed by y somewhere in the list args.
Adjacent(args, x, y) ==
    \E i \in 1..(Len(args) - 1) : args[i] = x /\ args[i + 1] = y

\* C1: once the availability check of check_ffmpeg has failed, the run has
\* ended with exit status 1 and the check is the only step it ever executed:
\* no input-file check, no standardization, no output directory resolution,
\* no transcode and no codec probe.
C1_ToolUnavailableAborts ==
    (check_result \notin {NotRun, "zero"}) =>
        /\ pc = "exit"
        /\ exit_code = 1
        /\ trace = <<"check_ffmpeg">>
        /\ new_filename = None
        /\ output_dir = None
        /\ cmd = <<>>
        /\ ffmpeg_result = NotRun
        /\ probe_result = NotRun

\* C1 witness: the version query could not be started and the run has ended.
C1_Witness ==
    /\ check_result = "FileNotFoundError"
    /\ pc = "exit"
    /\ exit_code = 1

\* C2: the transcoding tool is invoked at most once per run, and once the
\* transcode process has exited non-zero the run has ended with exit status 1
\* without the codec probe having run, in either audio mode.
C2_TranscodeFailureIsFatal ==
    /\ Count("ffmpeg") <= 1
    /\ ffmpeg_result = "CalledProcessError" =>
          /\ pc = "exit"
          /\ exit_code = 1
          /\ Count("ffmpeg") = 1
          /\ Count("ffprobe") = 0
          /\ probe_result = NotRun

\* C2 witness: the transcode exited non-zero in transcode-audio mode.
C2_Witness ==
    /\ ffmpeg_result = "CalledProcessError"
    /\ ~keep_audio
    /\ pc = "exit"
    /\ exit_code = 1

\* C3: in transcode-audio mode, a run whose transcode process exited zero
\* ends with exit status 0 whatever the outcome of the codec probe.
C3_VerificationIsNonFatal ==
    (pc = "exit" /\ ~keep_audio /\ ffmpeg_result = "zero") => exit_code = 0

\* The audio re-encoding directives of the argument list.
AudioDirectives == {"-c:a", "aac", "-b:a", "320k", "-ac"}

\* C9: the argument list handed to the transcoding tool starts with the
\* tool and the input option followed by the input path, ends with the
\* output path, holds the fast-start directive, and between them holds, with
\* keep_audio, the selection of every input stream and the copy of them all
\* and no audio codec, bitrate or channel directive; without keep_audio, the
\* copy of the video stream and the audio stream mapped and encoded to aac at
\* 320k with 2 channels.
C9_ArgumentListByMode ==
    cmd # <<>> =>
        /\ cmd[1] = "ffmpeg"
        /\ cmd[2] = "-i"
        /\ cmd[3] = input_file
        /\ cmd[Len(cmd)] = output_file
        /\ Adjacent(cmd, "-movflags", "+faststart")
        /\ keep_audio =>
              /\ Adjacent(cmd, "-map", "0")
              /\ Adjacent(cmd, "-c", "copy")
              /\ \A i \in 4..(Len(cmd) - 1) : cmd[i] \notin AudioDirectives
              /\ Len(cmd) = 10
        /\ ~keep_audio =>
              /\ Adjacent(cmd, "-map", "0:v")
              /\ Adjacent(cmd, "-map", "0:a")
              /\ Adjacent(cmd, "-c:v", "copy")
              /\ Adjacent(cmd, "-c:a", "aac")
              /\ Adjacent(cmd, "-b:a", "320k")
              /\ Adjacent(cmd, "-ac", "2")
              /\ ~Adjacent(cmd, "-c", "copy")
              /\ Len(cmd) = 18

\* C9 witness: a run in copy mode has invoked the tool.
C9_Witness ==
    /\ keep_audio
    /\ ffmpeg_result = "zero"
    /\ pc = "exit"
    /\ Len(cmd) > 0

\* C10: the output path handed to the transcoding tool differs from the
\* input path.
C10_OutputDiffersFromInput ==
    cmd # <<>> => cmd[Len(cmd)] # cmd[3]

-----------------------------------------------------------------------------
(* Properties of the standardizer *)

\* The name the patterns are searched in, and whether the extension is one
\* of the accepted ones.
NameOf(filename) == splitext_root(basename(filename))

AcceptedExtension(filename) ==
    Lower(splitext_ext(basename(filename))) \in ValidExtensions

DigitValue(c) == CHOOSE n \in 0..9 : At("0123456789", n + 1) = c

\* The number written by the four digits of name from index i on.
FourDigitValue(name, i) ==
    1000 * DigitValue(At(name, i)) + 100 * DigitValue(At(name, i + 1))
        + 10 * DigitValue(At(name, i + 2)) + DigitValue(At(name, i + 3))

\* The indices of the bounded year tokens of name: a run of exactly four
\* digits, with a non-digit or an end of the name on each side, that writes
\* a number in 1900..2109.
BoundedYearTokens(name) ==
    {i \in 1..(Len(name) - 3) :
        /\ \A j \in i..(i + 3) : At(name, j) \in Digits
        /\ (i = 1 \/ At(name, i - 1) \notin Digits)
        /\ (i + 3 = Len(name) \/ At(name, i + 4) \notin Digits)
        /\ FourDigitValue(name, i) >= 1900
        /\ FourDigitValue(name, i) <= 2109}

\* C5: for a filename with an accepted extension, the year used is the
\* leftmost bounded year token of the name, it is the year written in the
\* returned name, and the function returns None when the name has no bounded
\* year token (a year-like substring of a longer digit run is no token).
C5_YearIsFirstBoundedToken ==
    (pc = "ret" /\ AcceptedExtension(input_file)) =>
        LET name   == NameOf(input_file)
            tokens == BoundedYearTokens(name)
        IN  IF tokens = {}
            THEN ~locals.matched /\ new_filename = None
            ELSE /\ locals.matched
                 /\ locals.year = SubSeq(name, Min(tokens), Min(tokens) + 3)
                 /\ SubSeq(new_filename, Len(locals.title) + 1,
                           Len(locals.title) + 8)
                        = " (" \o locals.year \o ") "

\* C5 witness: a name with two different bounded year tokens was
\* standardized with the leftmost one.
C5_Witness ==
    /\ pc = "ret"
    /\ locals.matched
    /\ \E i, j \in BoundedYearTokens(NameOf(input_file)) :
          /\ i < j
          /\ SubSeq(NameOf(input_file), i, i + 3)
                # SubSeq(NameOf(input_file), j, j + 3)
          /\ locals.year = SubSeq(NameOf(input_file), i, i + 3)

\* The title cleaning of lines 94-96.
CleanTitle(s) == Strip(SubSpaces(SubDots(s)))

\* The titles C6 allows for a name whose extracted year token starts at
\* index y: the cleaned text before the token, less a '(' directly before
\* it; "Unknown" when nothing precedes the token. When only a '(' precedes
\* the token the sentence can be read either way, and each reading is allowed.
TitlesBeforeToken(name, y) ==
    LET before == SubSeq(name, 1, y - 1)
        less   == IF Len(before) > 0 /\ At(before, Len(before)) = "("
                  THEN SubSeq(before, 1, Len(before) - 1)
                  ELSE before
    IN  IF before = "" THEN {"Unknown"}
        ELSE IF less = "" THEN {"Unknown", "", CleanTitle(before)}
        ELSE {CleanTitle(less)}

\* C6: the title is taken from the text that precedes the occurrence of the
\* year that the year extraction chose.
C6_TitleIsTextBeforeYearToken ==
    (pc = "ret" /\ locals.matched) =>
        locals.title \in TitlesBeforeToken(NameOf(input_file),
                                           Min(BoundedYearTokens(NameOf(input_file))))

\* The source and resolution vocabularies as they appear in a returned name,
\* in lower case.
SourceVocabulary ==
    {"web"} \cup
    UNION {{Lower(Remove(Remove(source_regexes[k][j], "-"), ".")) :
                j \in 1..Len(source_regexes[k])} :
            k \in 1..Len(source_regexes)}

ResolutionVocabulary ==
    {Lower(resolution_alts[k]) : k \in 1..Len(resolution_alts)}

\* r reads "<Title> (<Year>) <Source> <Resolution>.mp4" with a non-empty
\* title of t characters, a year in 1900..2109 and a source and a resolution
\* of the vocabularies (compared ignoring case).
FullyFormedAt(r, t) ==
    /\ t >= 1
    /\ t + 8 <= Len(r)
    /\ SubSeq(r, t + 1, t + 2) = " ("
    /\ \A j \in (t + 3)..(t + 6) : At(r, j) \in Digits
    /\ FourDigitValue(r, t + 3) >= 1900
    /\ FourDigitValue(r, t + 3) <= 2109
    /\ SubSeq(r, t + 7, t + 8) = ") "
    /\ SubSeq(r, Len(r) - 3, Len(r)) = ".mp4"
    /\ \E u \in (t + 9)..(Len(r) - 4) :
          /\ At(r, u) = " "
          /\ Lower(SubSeq(r, t + 9, u - 1)) \in SourceVocabulary
          /\ Lower(SubSeq(r, u + 1, Len(r) - 4)) \in ResolutionVocabulary

FullyFormed(r) == \E t \in 1..Len(r) : FullyFormedAt(r, t)

\* C7: the function returns None for an extension that is not accepted, and
\* otherwise None or a fully formed name with a non-empty title.
C7_NeverPartialResult ==
    pc = "ret" =>
        /\ ~AcceptedExtension(input_file) => new_filename = None
        /\ new_filename = None \/ FullyFormed(new_filename)

\* The literal lit matches at index i of name, ignoring case.
MatchesIgnoringCase(name, i, lit) ==
    /\ i + Len(lit) - 1 <= Len(name)
    /\ Lower(SubSeq(name, i, i + Len(lit) - 1)) = Lower(lit)

\* The indices of name where the k-th source pattern matches, ignoring case.
PatternHits(name, k) ==
    {i \in 1..Len(name) :
        \E j \in 1..Len(source_regexes[k]) :
            MatchesIgnoringCase(name, i, source_regexes[k][j])}

MatchingPatterns(name) ==
    {k \in 1..Len(source_regexes) : PatternHits(name, k) # {}}

\* The texts of name that the k-th source pattern matches.
PatternTexts(name, k) ==
    UNION {{SubSeq(name, i, i + Len(source_regexes[k][j]) - 1) :
                i \in {h \in 1..Len(name) :
                          MatchesIgnoringCase(name, h, source_regexes[k][j])}} :
            j \in 1..Len(source_regexes[k])}

\* C8: the source is "WEB" exactly when no source pattern matches anywhere in
\* the name; otherwise it is a text matched, ignoring case, by the matching
\* pattern that comes first in the list, with '-' and '.' removed, wherever
\* the other patterns match.
C8_SourceByListOrder ==
    (pc = "ret" /\ locals.matched) =>
        LET name     == NameOf(input_file)
            matching == MatchingPatterns(name)
        IN  /\ (locals.source = "WEB") <=> (matching = {})
            /\ matching # {} =>
                  \E t \in PatternTexts(name, Min(matching)) :
                      locals.source = Remove(Remove(t, "-"), ".")

\* C8 witness: two patterns match, the one listed later starts earlier in
\* the name, and the source is the text of the one listed first.
C8_Witness ==
    /\ pc = "ret"
    /\ locals.matched
    /\ \E k1, k2 \in MatchingPatterns(NameOf(input_file)) :
          /\ k1 < k2
          /\ k1 = Min(MatchingPatterns(NameOf(input_file)))
          /\ Min(PatternHits(NameOf(input_file), k2))
                < Min(PatternHits(NameOf(input_file), k1))
          /\ Lower(locals.source) \in
                {Lower(Remove(Remove(source_regexes[k1][j], "-"), ".")) :
                    j \in 1..Len(source_regexes[k1])}

====
